---- MODULE Spec2Model ----
(***************************************************************************)
(* A model of render_gif.py, the "GIF Exporter" Blender add-on:            *)
(*   GIF_OT_convert.execute          one folder of PNG frames -> one GIF   *)
(*   GIF_OT_render_generate          render, poll a flag, then convert     *)
(*   GIF_OT_batch_process.execute    os.walk over a tree, convert per dir  *)
(*                                                                         *)
(* Strings are sequences of one-character strings, so that commonprefix,   *)
(* rstrip, lower, endswith, normpath, basename, dirname and join are       *)
(* computed character by character, as Python computes them (POSIX paths). *)
(***************************************************************************)
EXTENDS Integers, Sequences, FiniteSets, TLC

VARIABLES
  \* --- the prefix computation of the batch (lines 233-245) on its own
  filenames,        \* the filenames os.walk lists in one folder
  stem,             \* the textual prefix the frames of that folder share
  base_prefix,      \* what the batch computes from filenames
  prefix_done,      \* the computation has run
  \* --- the naming part of GIF_OT_convert.execute (lines 77-103) on its own
  render_dir,       \* the source folder, a path string
  gifs_dir,         \* os.path.join(render_dir, "gifs")
  gif_name,         \* the output file name
  name_done,        \* the computation has run
  \* --- GIF_OT_render_generate: operator instances, the scene flag, the host
  gif_is_rendering, \* scene.gif_is_rendering
  file_format,      \* scene.render.image_settings.file_format
  op_state,         \* per operator instance: "new", "modal", "finished"
  modal_return,     \* per instance: what execute or modal returned last
  timer,            \* per instance: its window-manager timer exists
  on_complete,      \* instances whose stop_render_flag is in render_complete
  on_cancel,        \* instances whose stop_render_flag is in render_cancel
  convert_calls,    \* per instance: bpy.ops.gif.convert() calls made by modal
  flag_cleared,     \* per instance: its stop_render_flag has run since execute
  render_job,       \* the host's render job: "idle" or "running"
  frame,            \* frames the running job has rendered
  \* --- GIF_OT_batch_process.execute and GIF_OT_convert.execute on a tree
  dirs,             \* the directories that exist, as paths below the root
  files,            \* per walkable directory, its set of file names
  ffmpeg,           \* what preferences.ffmpeg_path names: "missing","dir","file"
  unwritable,       \* directories in which os.makedirs raises
  filepath,         \* scene.render.filepath: [dir, base]
  user_filepath,    \* the filepath the user had set
  pc,               \* "idle", "walk", "encoding", "encoding_single", "done"
  stack,            \* os.walk's pending directories, next first
  pending,          \* dirnames of the folder being processed (after the prune)
  original_filepath,
  folders_processed,
  failures,         \* gif.convert calls of this run that did not give FINISHED
  handed,           \* per directory: times handed to gif.convert in this run
  listed,           \* directories os.walk has listed in this run
  seen_frames,      \* directories whose PNGs made the batch call the converter
  conv_listed,      \* directories GIF_OT_convert listed (os.listdir), this run
                    \* or this stand-alone call
  running,          \* encoder processes in progress: the render_dir of each
  encoded,          \* render_dirs for which the encoder was started, this run
  made,             \* directories created by os.makedirs since the start
  result,           \* what the last gif.convert call gave
  report,           \* the last self.report of the batch: [level, count]
  batch_result,     \* what GIF_OT_batch_process.execute returned
  convert_result,   \* what the last stand-alone GIF_OT_convert.execute returned
  last,             \* the end of the last finished run: [some, visited, dirs]
  prev              \* the end of the finished run before that one

prefixVars == <<filenames, stem, base_prefix, prefix_done>>
nameVars == <<render_dir, gifs_dir, gif_name, name_done>>
renderVars == <<gif_is_rendering, file_format, op_state, modal_return, timer, on_complete,
                on_cancel, convert_calls, flag_cleared, render_job, frame>>
batchVars == <<dirs, files, ffmpeg, unwritable, filepath, user_filepath, pc,
               stack, pending, original_filepath, folders_processed, failures, handed,
               listed, seen_frames, conv_listed, running, encoded, made,
               result, report, batch_result, convert_result, last, prev>>
vars == <<prefixVars, nameVars, renderVars, batchVars>>

(***************************************************************************)
(* Bounds of the model.                                                    *)
(***************************************************************************)
MaxDigits == 2      \* digits in a frame number
MaxFrames == 3      \* frame files in one folder
MaxPathLen == 5     \* characters in a source folder path
NumOps == 2         \* instances of GIF_OT_render_generate
LastFrame == 3      \* frames of the animation the host renders

(***************************************************************************)
(* Strings.                                                                *)
(***************************************************************************)
Digits == {"0", "1", "2", "3", "4", "5", "6", "7", "8", "9"}

\* ASCII codes of the characters the model uses: Python compares strings by
\* code point (min and max in os.path.commonprefix).
Ord(c) ==
  CASE c = "." -> 46 [] c = "/" -> 47 [] c = "0" -> 48 [] c = "1" -> 49
    [] c = "2" -> 50 [] c = "A" -> 65 [] c = "G" -> 71 [] c = "N" -> 78
    [] c = "P" -> 80 [] c = "_" -> 95 [] c = "a" -> 97 [] c = "b" -> 98
    [] c = "f" -> 102 [] c = "g" -> 103 [] c = "i" -> 105 [] c = "m" -> 109
    [] c = "n" -> 110 [] c = "o" -> 111 [] c = "p" -> 112 [] c = "s" -> 115
    [] c = "t" -> 116 [] c = "x" -> 120

\* str.lower(), one character.
LowerChar(c) ==
  CASE c = "A" -> "a" [] c = "G" -> "g" [] c = "N" -> "n" [] c = "P" -> "p"
    [] OTHER -> c

lower(s) == [i \in 1..Len(s) |-> LowerChar(s[i])]

endswith(s, suffix) ==
  /\ Len(suffix) <= Len(s)
  /\ SubSeq(s, Len(s) - Len(suffix) + 1, Len(s)) = suffix

startswith(s, p) == Len(p) <= Len(s) /\ SubSeq(s, 1, Len(p)) = p

DotPng == <<".", "p", "n", "g">>
DotGif == <<".", "g", "i", "f">>
Gifs == <<"g", "i", "f", "s">>
Animation == <<"a", "n", "i", "m", "a", "t", "i", "o", "n">>

\* s < t in Python's string order.
StrLess(s, t) ==
  \/ /\ Len(s) < Len(t)
     /\ SubSeq(t, 1, Len(s)) = s
  \/ \E i \in 1..Len(s) :
       /\ i <= Len(t)
       /\ SubSeq(s, 1, i - 1) = SubSeq(t, 1, i - 1)
       /\ Ord(s[i]) < Ord(t[i])

StrMin(m) == CHOOSE s \in m : \A t \in m : t = s \/ StrLess(s, t)
StrMax(m) == CHOOSE s \in m : \A t \in m : t = s \/ StrLess(t, s)

\* os.path.commonprefix(m): the first mismatch between min(m) and max(m).
commonprefix(m) ==
  IF m = {} THEN <<>>
  ELSE LET s1 == StrMin(m)
           s2 == StrMax(m)
           mism == {i \in 1..Len(s1) : i > Len(s2) \/ s1[i] # s2[i]}
       IN IF mism = {} THEN s1
          ELSE SubSeq(s1, 1, (CHOOSE i \in mism : \A j \in mism : i <= j) - 1)

\* str.rstrip(chars).
RECURSIVE rstrip(_, _)
rstrip(s, chars) ==
  IF s # <<>> /\ s[Len(s)] \in chars THEN rstrip(SubSeq(s, 1, Len(s) - 1), chars)
  ELSE s

\* Line 233: pngs = [f for f in filenames if f.lower().endswith('.png')]
BatchPngs(fs) == {f \in fs : endswith(lower(f), DotPng)}

\* Line 67: files = [f for f in os.listdir(render_dir) if f.endswith('.png')]
ConvertPngs(fs) == {f \in fs : endswith(f, DotPng)}

\* Lines 241-245: the naming prefix the batch guesses from the files found.
BasePrefix(pngs) == rstrip(commonprefix(pngs), Digits)

(***************************************************************************)
(* Paths (posixpath).                                                      *)
(***************************************************************************)
\* The index just past the last "/" of p (p.rfind('/') + 1).
AfterLastSlash(p) ==
  LET sl == {i \in 1..Len(p) : p[i] = "/"}
  IN IF sl = {} THEN 1 ELSE (CHOOSE i \in sl : \A j \in sl : j <= i) + 1

\* os.path.basename(p)
basename(p) == SubSeq(p, AfterLastSlash(p), Len(p))

\* os.path.dirname(p): the head, its trailing slashes stripped unless it is
\* all slashes.
dirname(p) ==
  LET head == SubSeq(p, 1, AfterLastSlash(p) - 1)
  IN IF head # <<>> /\ \E i \in 1..Len(head) : head[i] # "/"
     THEN rstrip(head, {"/"})
     ELSE head

\* os.path.join(a, b)
join(a, b) ==
  IF startswith(b, <<"/">>) THEN b
  ELSE IF a = <<>> \/ a[Len(a)] = "/" THEN a \o b
  ELSE a \o <<"/">> \o b

\* p.split('/')
RECURSIVE split(_)
split(p) ==
  LET sl == {i \in 1..Len(p) : p[i] = "/"}
  IN IF sl = {} THEN <<p>>
     ELSE LET i == CHOOSE k \in sl : \A j \in sl : k <= j
          IN <<SubSeq(p, 1, i - 1)>> \o split(SubSeq(p, i + 1, Len(p)))

\* '/'.join(comps)
RECURSIVE joinslash(_)
joinslash(comps) ==
  IF comps = <<>> THEN <<>>
  ELSE IF Len(comps) = 1 THEN comps[1]
  ELSE comps[1] \o <<"/">> \o joinslash(Tail(comps))

\* The loop of normpath over the components: "" and "." are dropped, ".."
\* pops the component before it unless there is none to pop.
RECURSIVE NormComps(_, _, _)
NormComps(comps, new, initial_slashes) ==
  IF comps = <<>> THEN new
  ELSE LET comp == Head(comps)
           dotdot == <<".", ".">>
       IN IF comp = <<>> \/ comp = <<".">>
          THEN NormComps(Tail(comps), new, initial_slashes)
          ELSE IF \/ comp # dotdot
                  \/ (initial_slashes = 0 /\ new = <<>>)
                  \/ (new # <<>> /\ new[Len(new)] = dotdot)
          THEN NormComps(Tail(comps), Append(new, comp), initial_slashes)
          ELSE IF new # <<>>
          THEN NormComps(Tail(comps), SubSeq(new, 1, Len(new) - 1), initial_slashes)
          ELSE NormComps(Tail(comps), new, initial_slashes)

\* os.path.normpath(path)
normpath(path) ==
  IF path = <<>> THEN <<".">>
  ELSE LET initial_slashes ==
             IF ~startswith(path, <<"/">>) THEN 0
             ELSE IF startswith(path, <<"/", "/">>)
                     /\ ~startswith(path, <<"/", "/", "/">>) THEN 2
             ELSE 1
           body == joinslash(NormComps(split(path), <<>>, initial_slashes))
           out == [i \in 1..initial_slashes |-> "/"] \o body
       IN IF out = <<>> THEN <<".">> ELSE out

\* A faulty variant of GifName: the path is not normalized first.
GifNameUnnormalized(dir) ==
  LET current_folder_name == basename(dir)
      parent_folder_name == basename(dirname(dir))
  IN IF parent_folder_name # <<>> /\ current_folder_name # <<>>
     THEN parent_folder_name \o <<"_">> \o current_folder_name \o DotGif
     ELSE IF current_folder_name # <<>>
     THEN current_folder_name \o DotGif
     ELSE Animation \o DotGif

\* Lines 84-101: the name of the GIF, from the folder and its parent.
GifName(dir) ==
  LET clean_path == normpath(dir)
      current_folder_name == basename(clean_path)
      parent_path == dirname(clean_path)
      parent_folder_name == basename(parent_path)
  IN IF parent_folder_name # <<>> /\ current_folder_name # <<>>
     THEN parent_folder_name \o <<"_">> \o current_folder_name \o DotGif
     ELSE IF current_folder_name # <<>>
     THEN current_folder_name \o DotGif
     ELSE Animation \o DotGif

\* Line 78: gifs_dir = os.path.join(render_dir, "gifs")
GifsDir(dir) == join(dir, Gifs)

(***************************************************************************)
(* The prefix the batch computes, on every small folder of frames.         *)
(***************************************************************************)
RECURSIVE SeqsUpTo(_, _)
\* The sequences over S of length 1..n.
SeqsUpTo(S, n) ==
  IF n = 0 THEN {}
  ELSE LET shorter == SeqsUpTo(S, n - 1)
       IN {<<c>> : c \in S} \cup shorter \cup
          {Append(q, c) : q \in shorter, c \in S}

Stems == {<<>>, <<"a">>, <<"s", "_">>}
DigitStrs == SeqsUpTo({"0", "1"}, MaxDigits)
NotesTxt == <<"n", ".", "t", "x", "t">>
Frame(st, d) == st \o d \o DotPng

\* The folders: 1..MaxFrames frames <stem><digits>.png of one stem, with or
\* without a file that is no frame.
FrameSets(st) ==
  {fs \in SUBSET {Frame(st, d) : d \in DigitStrs} :
     Cardinality(fs) \in 1..MaxFrames}

PrefixIdle ==
  /\ filenames = {}
  /\ stem = <<>>
  /\ base_prefix = <<>>
  /\ prefix_done = FALSE

InitPrefix ==
  /\ stem \in Stems
  /\ \E fs \in FrameSets(stem), other \in {{}, {NotesTxt}} :
       filenames = fs \cup other
  /\ base_prefix = <<>>
  /\ prefix_done = FALSE

\* Lines 233-245 of GIF_OT_batch_process.execute, for one folder.
InferPrefix ==
  /\ ~prefix_done
  /\ BatchPngs(filenames) # {}
  /\ base_prefix' = BasePrefix(BatchPngs(filenames))
  /\ prefix_done' = TRUE
  /\ UNCHANGED <<filenames, stem>>

(***************************************************************************)
(* The output name and directory, on every short path.                     *)
(***************************************************************************)
PathChars == {"/", ".", "a", "b"}
Paths == SeqsUpTo(PathChars, MaxPathLen)

NameIdle ==
  /\ render_dir = <<".">>
  /\ gifs_dir = <<>>
  /\ gif_name = <<>>
  /\ name_done = FALSE

InitName ==
  /\ render_dir \in Paths
  /\ gifs_dir = <<>>
  /\ gif_name = <<>>
  /\ name_done = FALSE

\* Lines 77-103 of GIF_OT_convert.execute, for one render_dir.
ResolveName ==
  /\ ~name_done
  /\ gifs_dir' = GifsDir(render_dir)
  /\ gif_name' = GifName(render_dir)
  /\ name_done' = TRUE
  /\ UNCHANGED render_dir

(***************************************************************************)
(* GIF_OT_render_generate: execute, the two handlers, modal.               *)
(***************************************************************************)
Ops == 1..NumOps

RenderIdle ==
  /\ gif_is_rendering = FALSE
  /\ file_format = "PNG"
  /\ op_state = [i \in Ops |-> "new"]
  /\ modal_return = [i \in Ops |-> "none"]
  /\ timer = [i \in Ops |-> FALSE]
  /\ on_complete = {}
  /\ on_cancel = {}
  /\ convert_calls = [i \in Ops |-> 0]
  /\ flag_cleared = [i \in Ops |-> FALSE]
  /\ render_job = "idle"
  /\ frame = 0

\* register(), line 319: the flag's default is False.
InitRender ==
  /\ gif_is_rendering = FALSE
  /\ file_format \in {"PNG", "JPEG"}
  /\ op_state = [i \in Ops |-> "new"]
  /\ modal_return = [i \in Ops |-> "none"]
  /\ timer = [i \in Ops |-> FALSE]
  /\ on_complete = {}
  /\ on_cancel = {}
  /\ convert_calls = [i \in Ops |-> 0]
  /\ flag_cleared = [i \in Ops |-> FALSE]
  /\ render_job = "idle"
  /\ frame = 0

\* Lines 173-191. bpy.ops.render.render('INVOKE_DEFAULT') starts the host's
\* render job, unless one is running already.
Execute(i) ==
  /\ op_state[i] = "new"
  /\ file_format' = "PNG"
  /\ gif_is_rendering' = TRUE
  /\ on_complete' = on_complete \cup {i}
  /\ on_cancel' = on_cancel \cup {i}
  /\ IF render_job = "idle"
     THEN render_job' = "running" /\ frame' = 0
     ELSE UNCHANGED <<render_job, frame>>
  /\ timer' = [timer EXCEPT ![i] = TRUE]
  /\ op_state' = [op_state EXCEPT ![i] = "modal"]
  /\ modal_return' = [modal_return EXCEPT ![i] = "RUNNING_MODAL"]
  /\ flag_cleared' = [flag_cleared EXCEPT ![i] = FALSE]
  /\ UNCHANGED convert_calls

\* Lines 194-195, run for every instance registered in the handler list hs.
StopRenderFlag(hs) ==
  /\ gif_is_rendering' = IF hs = {} THEN gif_is_rendering ELSE FALSE
  /\ flag_cleared' = [i \in Ops |-> flag_cleared[i] \/ i \in hs]

\* The host renders one more frame of the animation.
RenderFrame ==
  /\ render_job = "running"
  /\ frame < LastFrame
  /\ frame' = frame + 1
  /\ UNCHANGED <<gif_is_rendering, file_format, op_state, modal_return, timer,
                 on_complete, on_cancel, convert_calls, flag_cleared, render_job>>

\* The host ends the job after the last frame: bpy.app.handlers.render_complete.
RenderComplete ==
  /\ render_job = "running"
  /\ frame = LastFrame
  /\ render_job' = "idle"
  /\ StopRenderFlag(on_complete)
  /\ UNCHANGED <<file_format, op_state, modal_return, timer, on_complete,
                 on_cancel, convert_calls, frame>>

\* The user cancels the job: bpy.app.handlers.render_cancel.
RenderCancel ==
  /\ render_job = "running"
  /\ render_job' = "idle"
  /\ StopRenderFlag(on_cancel)
  /\ UNCHANGED <<file_format, op_state, modal_return, timer, on_complete,
                 on_cancel, convert_calls, frame>>

\* A faulty variant of ModalTimer: after the conversion the operator stays modal
\* (it returns PASS_THROUGH and keeps its timer and handlers).
ModalTimerStaysModal(i) ==
  /\ op_state[i] = "modal"
  /\ timer[i]
  /\ modal_return' = [modal_return EXCEPT ![i] = "PASS_THROUGH"]
  /\ convert_calls' =
       [convert_calls EXCEPT ![i] = IF gif_is_rendering THEN @ ELSE @ + 1]
  /\ UNCHANGED <<timer, on_complete, on_cancel, op_state, gif_is_rendering,
                 file_format, flag_cleared, render_job, frame>>

\* Lines 150-171 on a TIMER event of instance i's timer.
ModalTimer(i) ==
  /\ op_state[i] = "modal"
  /\ timer[i]
  /\ IF gif_is_rendering
     THEN /\ modal_return' = [modal_return EXCEPT ![i] = "PASS_THROUGH"]
          /\ UNCHANGED <<timer, on_complete, on_cancel, convert_calls, op_state>>
     ELSE /\ timer' = [timer EXCEPT ![i] = FALSE]
          /\ on_complete' = on_complete \ {i}
          /\ on_cancel' = on_cancel \ {i}
          /\ convert_calls' = [convert_calls EXCEPT ![i] = @ + 1]
          /\ modal_return' = [modal_return EXCEPT ![i] = "FINISHED"]
          /\ op_state' = [op_state EXCEPT ![i] = "finished"]
  /\ UNCHANGED <<gif_is_rendering, file_format, flag_cleared, render_job, frame>>

\* Lines 150-171 on an event of any other type.
ModalOther(i) ==
  /\ op_state[i] = "modal"
  /\ modal_return' = [modal_return EXCEPT ![i] = "PASS_THROUGH"]
  /\ UNCHANGED <<gif_is_rendering, file_format, op_state, timer, on_complete,
                 on_cancel, convert_calls, flag_cleared, render_job, frame>>

(***************************************************************************)
(* The tree the batch walks.  Directories are path strings; the root the   *)
(* user selects is "r".  Output folders named "gifs" exist before the run  *)
(* at two levels and hold PNG files, as does a folder below one of them.   *)
(***************************************************************************)
Root == <<"r">>
DirA == join(Root, <<"a">>)
DirAB == join(DirA, <<"b">>)
DirUpper == join(Root, <<"G", "i", "f", "s">>)
DirGifs == join(Root, Gifs)
DirGifsA == join(DirGifs, <<"a">>)
DirABGifs == join(DirAB, Gifs)

Walkable == {Root, DirA, DirAB, DirUpper}
Hidden == {DirGifs, DirGifsA, DirABGifs}
InitialDirs == Walkable \cup Hidden

S1Png == <<"s", "1", ".", "p", "n", "g">>
S2Png == <<"s", "2", ".", "p", "n", "g">>
UpperPng == <<"A", ".", "P", "N", "G">>
N1Png == <<"1", ".", "p", "n", "g">>
N2Png == <<"2", ".", "p", "n", "g">>

\* What r, r/a and r/a/b may each hold: a file that is no frame, two frames,
\* one frame whose extension is upper case.  r/Gifs is empty or holds two
\* frames with no textual prefix; the folders under a "gifs" hold frames.
FolderMenu == {{NotesTxt}, {S1Png, S2Png}, {UpperPng}}

\* bpy.path.abspath("//"): the folder of the .blend file.
BlendDir == <<"r", "/">>

\* The render paths the user may have set: frames "s####" in r/a, or in a
\* folder that does not exist.
UserPaths == {join(DirA, <<"s">>), join(<<"t">>, <<"s">>)}

\* bpy.path.abspath(path): only a path that starts with "//" is rewritten,
\* and no filepath of the model does.
abspath(path) == path

FilesIn(d) == IF d \in DOMAIN files THEN files[d] ELSE {}

\* The names os.scandir(top) gives for the sub-directories of top.
Children(top) == {basename(d) : d \in {x \in dirs : dirname(x) = top /\ x # top}}

\* The orders in which a set of names may come.
Orders(S) ==
  {q \in [1..Cardinality(S) -> S] : \A i, j \in DOMAIN q : q[i] = q[j] => i = j}

\* A path with a component named "gifs" below the root.
UnderGifs(d) == \E i \in 2..Len(split(d)) : split(d)[i] = Gifs

\* A faulty variant of Prune: nothing is removed.
NoPrune(dirnames) == dirnames

\* Another faulty variant of Prune: the name is compared in the wrong case.
PruneWrongCase(dirnames) == dirnames \ {<<"G", "i", "f", "s">>}

\* Lines 229-230: if "gifs" in dirnames: dirnames.remove("gifs")
Prune(dirnames) == dirnames \ {Gifs}

\* Line 51: os.path.exists(ffmpeg_exe) and os.path.isfile(ffmpeg_exe)
FfmpegValid == ffmpeg # "missing" /\ ffmpeg = "file"

\* GIF_OT_convert.execute up to the call of subprocess.run (lines 45-123):
\* where it returns or raises before that call, and what it has done.
ConvertOutcome(fp) ==
  LET abs_filepath == abspath(fp)
      dir0 == dirname(abs_filepath)
      rd == IF dir0 = <<>> THEN BlendDir ELSE dir0
      where == normpath(rd)
      target == normpath(GifsDir(rd))
  IN IF ~FfmpegValid
     THEN [kind |-> "CANCELLED", render_dir |-> where, listdir |-> {},
           mkdir |-> {}]
     ELSE IF where \notin dirs \/ ConvertPngs(FilesIn(where)) = {}
     THEN [kind |-> "CANCELLED", render_dir |-> where, listdir |-> {where},
           mkdir |-> {}]
     ELSE IF target \notin dirs /\ where \in unwritable
     THEN [kind |-> "RAISED", render_dir |-> where, listdir |-> {where},
           mkdir |-> {}]
     ELSE [kind |-> "ENCODE", render_dir |-> where, listdir |-> {where},
           mkdir |-> {target} \ dirs]

\* What gif.convert gives its caller when the encoder ends as `exit`:
\* "ok", "nonzero" (CalledProcessError, lines 133-135), or "oserror"
\* (subprocess.run could not start the program and raises).
ConvertReturn(exit) ==
  CASE exit = "ok" -> "FINISHED"
    [] exit = "nonzero" -> "CANCELLED"
    [] exit = "oserror" -> "RAISED"

Exits == {"ok", "nonzero", "oserror"}

\* A faulty variant of ExceptCatches: only a failed encoder is expected.
ExceptCatchesNone(res) == res # "RAISED"

\* Lines 256-266: try: ... except Exception: continue
ExceptCatches(res) == TRUE

\* A faulty variant of SubprocessRunBlocks: the encoder is started and not waited for.
SubprocessRunReturnsAtOnce == FALSE

\* Line 131: subprocess.run(cmd, check=True) returns when the process has ended.
SubprocessRunBlocks == TRUE

\* A faulty variant of RestoredFilepath: the last folder's path is left in place.
NotRestoredFilepath == filepath

\* Line 269: scene.render.filepath = original_filepath
RestoredFilepath == original_filepath

\* Lines 271-274: the final self.report, as its level and what its text states.
Summary(n) ==
  IF n > 0 THEN [level |-> "INFO", says |-> {<<"processed", n>>}]
  ELSE [level |-> "WARNING", says |-> {<<"png sequences found", 0>>}]

NoReport == [level |-> "none", says |-> {}]
NoRun == [some |-> FALSE, visited |-> {}, dirs |-> {}]

BatchIdle ==
  /\ dirs = {Root}
  /\ files = [d \in {Root} |-> {}]
  /\ ffmpeg = "file"
  /\ unwritable = {}
  /\ user_filepath = <<"s">>
  /\ filepath = <<"s">>
  /\ pc = "idle"
  /\ stack = <<>>
  /\ pending = {}
  /\ original_filepath = <<>>
  /\ folders_processed = 0
  /\ failures = 0
  /\ handed = <<>>
  /\ listed = {}
  /\ seen_frames = {}
  /\ conv_listed = {}
  /\ running = {}
  /\ encoded = <<>>
  /\ made = {}
  /\ result = "none"
  /\ report = NoReport
  /\ batch_result = "none"
  /\ convert_result = "none"
  /\ prev = NoRun
  /\ last = NoRun

InitBatch ==
  /\ dirs = InitialDirs
  /\ \E f \in [{Root, DirA, DirAB} -> FolderMenu],
        g \in {{}, {N1Png, N2Png}} :
       files = [d \in InitialDirs |->
                  IF d \in DOMAIN f THEN f[d]
                  ELSE IF d = DirUpper THEN g
                  ELSE {S1Png, S2Png}]
  /\ ffmpeg \in {"missing", "dir", "file"}
  /\ unwritable \in SUBSET {DirA}
  /\ user_filepath \in UserPaths
  /\ filepath = user_filepath
  /\ pc = "idle"
  /\ stack = <<>>
  /\ pending = {}
  /\ original_filepath = <<>>
  /\ folders_processed = 0
  /\ failures = 0
  /\ handed = <<>>
  /\ listed = {}
  /\ seen_frames = {}
  /\ conv_listed = {}
  /\ running = {}
  /\ encoded = <<>>
  /\ made = {}
  /\ result = "none"
  /\ report = NoReport
  /\ batch_result = "none"
  /\ convert_result = "none"
  /\ prev = NoRun
  /\ last = NoRun

(***************************************************************************)
(* GIF_OT_batch_process.execute, one step per folder os.walk yields, split *)
(* where subprocess.run waits for the encoder.                             *)
(***************************************************************************)
\* The sub-directories os.walk goes on to after the body: top joined with
\* each name left in dirnames.
KidsOf(top) == {join(top, n) : n \in Prune(Children(top))}

\* Line 233, on the files of top.
PngsOf(top) == BatchPngs(FilesIn(top))

\* Lines 241-249: temp_filepath = os.path.join(dirpath, base_prefix)
TempFilepath(top) == join(top, BasePrefix(PngsOf(top)))

\* Lines 214-223: the start of execute; os.walk(root_folder) begins at the root.
BatchExecute ==
  /\ pc \in {"idle", "done"}
  /\ original_filepath' = filepath
  /\ folders_processed' = 0
  /\ failures' = 0
  /\ stack' = <<Root>>
  /\ handed' = <<>>
  /\ listed' = {}
  /\ seen_frames' = {}
  /\ conv_listed' = {}
  /\ encoded' = <<>>
  /\ result' = "none"
  /\ report' = NoReport
  /\ batch_result' = "none"
  /\ pc' = "walk"
  /\ UNCHANGED <<dirs, files, ffmpeg, unwritable, filepath, user_filepath,
                 pending, running, made, convert_result, last, prev>>

\* Lines 259-266 once gif.convert has given res: count it, or skip the folder
\* when it raised; then os.walk goes on with kids before rest.
AfterConvert(res, kids, rest) ==
  IF res = "RAISED" /\ ~ExceptCatches(res)
  THEN /\ pc' = "aborted"
       /\ batch_result' = "RAISED"
       /\ UNCHANGED <<stack, folders_processed, failures>>
  ELSE /\ folders_processed' = folders_processed + (IF res = "FINISHED" THEN 1 ELSE 0)
       /\ failures' = failures + (IF res = "FINISHED" THEN 0 ELSE 1)
       /\ stack' = kids \o rest
       /\ pc' = "walk"
       /\ UNCHANGED batch_result

\* Lines 226-235: a folder with no PNG.
WalkSkip ==
  /\ pc = "walk"
  /\ stack # <<>>
  /\ LET top == Head(stack)
     IN /\ PngsOf(top) = {}
        /\ listed' = listed \cup {top}
        /\ \E q \in Orders(KidsOf(top)) : stack' = q \o Tail(stack)
  /\ UNCHANGED <<dirs, files, ffmpeg, unwritable, filepath, user_filepath, pc,
                 pending, original_filepath, folders_processed, failures,
                 handed, seen_frames, conv_listed, running, encoded, made,
                 result, report, batch_result, convert_result, last, prev>>

\* Lines 226-266: a folder with PNGs whose gif.convert returns CANCELLED or
\* raises before it starts the encoder.
WalkConvertFails ==
  /\ pc = "walk"
  /\ stack # <<>>
  /\ LET top == Head(stack)
         o == ConvertOutcome(TempFilepath(top))
     IN /\ PngsOf(top) # {}
        /\ o.kind \in {"CANCELLED", "RAISED"}
        /\ listed' = listed \cup {top}
        /\ seen_frames' = seen_frames \cup {top}
        /\ filepath' = TempFilepath(top)
        /\ handed' = Append(handed, o.render_dir)
        /\ conv_listed' = conv_listed \cup o.listdir
        /\ result' = o.kind
        /\ \E q \in Orders(KidsOf(top)) : AfterConvert(o.kind, q, Tail(stack))
  /\ UNCHANGED <<dirs, files, ffmpeg, unwritable, user_filepath, pending,
                 original_filepath, running, encoded, made, report,
                 convert_result, last, prev>>

\* Lines 226-259 and 45-131: a folder with PNGs whose gif.convert makes the
\* output folder and starts the encoder.
WalkConvertEncode ==
  /\ pc = "walk"
  /\ stack # <<>>
  /\ LET top == Head(stack)
         o == ConvertOutcome(TempFilepath(top))
     IN /\ PngsOf(top) # {}
        /\ o.kind = "ENCODE"
        /\ listed' = listed \cup {top}
        /\ seen_frames' = seen_frames \cup {top}
        /\ filepath' = TempFilepath(top)
        /\ handed' = Append(handed, o.render_dir)
        /\ conv_listed' = conv_listed \cup o.listdir
        /\ dirs' = dirs \cup o.mkdir
        /\ made' = made \cup o.mkdir
        /\ encoded' = Append(encoded, o.render_dir)
        /\ running' = running \cup {o.render_dir}
        /\ IF SubprocessRunBlocks
           THEN /\ pc' = "encoding"
                /\ pending' = KidsOf(top)
                /\ stack' = Tail(stack)
                /\ UNCHANGED <<folders_processed, failures, result, batch_result>>
           ELSE /\ result' = "FINISHED"
                /\ \E q \in Orders(KidsOf(top)) :
                     AfterConvert("FINISHED", q, Tail(stack))
                /\ UNCHANGED pending
  /\ UNCHANGED <<files, ffmpeg, unwritable, user_filepath, original_filepath,
                 report, convert_result, last, prev>>

\* The encoder process ends; subprocess.run returns or raises (lines 131-137)
\* and the batch goes on (lines 261-266).
EncoderExit ==
  /\ pc # "encoding_single"
  /\ \E rd \in running, exit \in Exits :
       /\ running' = running \ {rd}
       /\ IF pc = "encoding"
          THEN /\ result' = ConvertReturn(exit)
               /\ pending' = {}
               /\ \E q \in Orders(pending) :
                    AfterConvert(ConvertReturn(exit), q, stack)
          ELSE UNCHANGED <<result, pending, pc, batch_result, stack,
                           folders_processed, failures>>
  /\ UNCHANGED <<dirs, files, ffmpeg, unwritable, filepath, user_filepath,
                 original_filepath, handed, listed, seen_frames, conv_listed,
                 encoded, made, report, convert_result, last, prev>>

\* Lines 268-276: os.walk is exhausted.
BatchFinish ==
  /\ pc = "walk"
  /\ stack = <<>>
  /\ filepath' = RestoredFilepath
  /\ report' = Summary(folders_processed)
  /\ batch_result' = "FINISHED"
  /\ pc' = "done"
  /\ prev' = last
  /\ last' = [some |-> TRUE, visited |-> seen_frames, dirs |-> dirs]
  /\ UNCHANGED <<dirs, files, ffmpeg, unwritable, user_filepath, stack, pending,
                 original_filepath, folders_processed, failures, handed,
                 listed, seen_frames, conv_listed, running, encoded, made,
                 result, convert_result>>

\* GIF_OT_convert.execute from its own button (lines 45-131), on the render
\* path the scene has.
ConvertExecute ==
  /\ pc \in {"idle", "done"}
  /\ LET o == ConvertOutcome(filepath)
     IN /\ conv_listed' = o.listdir
        /\ dirs' = dirs \cup o.mkdir
        /\ made' = made \cup o.mkdir
        /\ IF o.kind = "ENCODE"
           THEN /\ encoded' = <<o.render_dir>>
                /\ running' = running \cup {o.render_dir}
                /\ convert_result' = "none"
                /\ pc' = "encoding_single"
           ELSE /\ encoded' = <<>>
                /\ convert_result' = o.kind
                /\ pc' = "idle"
                /\ UNCHANGED running
  /\ UNCHANGED <<files, ffmpeg, unwritable, filepath, user_filepath, stack,
                 pending, original_filepath, folders_processed, failures,
                 handed, listed, seen_frames, result, report, batch_result,
                 last, prev>>

\* Lines 131-137 of that call: the encoder ends.
ConvertReturns ==
  /\ pc = "encoding_single"
  /\ \E rd \in running, exit \in Exits :
       /\ running' = running \ {rd}
       /\ convert_result' = ConvertReturn(exit)
  /\ pc' = "idle"
  /\ UNCHANGED <<dirs, files, ffmpeg, unwritable, filepath, user_filepath,
                 stack, pending, original_filepath, folders_processed,
                 failures, handed, listed, seen_frames, conv_listed, encoded,
                 made, result, report, batch_result, last, prev>>

(***************************************************************************)
(* The specifications: the batch and the converter on the tree (Spec), the *)
(* prefix computation (SpecPrefix), the naming (SpecName), and the         *)
(* render-then-convert operator (SpecRender).  Each leaves the variables   *)
(* of the others at rest.                                                  *)
(***************************************************************************)
Init == PrefixIdle /\ NameIdle /\ RenderIdle /\ InitBatch

Next ==
  \/ BatchExecute /\ UNCHANGED <<prefixVars, nameVars, renderVars>>
  \/ WalkSkip /\ UNCHANGED <<prefixVars, nameVars, renderVars>>
  \/ WalkConvertFails /\ UNCHANGED <<prefixVars, nameVars, renderVars>>
  \/ WalkConvertEncode /\ UNCHANGED <<prefixVars, nameVars, renderVars>>
  \/ EncoderExit /\ UNCHANGED <<prefixVars, nameVars, renderVars>>
  \/ BatchFinish /\ UNCHANGED <<prefixVars, nameVars, renderVars>>
  \/ ConvertExecute /\ UNCHANGED <<prefixVars, nameVars, renderVars>>
  \/ ConvertReturns /\ UNCHANGED <<prefixVars, nameVars, renderVars>>

Spec == Init /\ [][Next]_vars

InitP == InitPrefix /\ NameIdle /\ RenderIdle /\ BatchIdle

NextP == InferPrefix /\ UNCHANGED <<nameVars, renderVars, batchVars>>

SpecPrefix == InitP /\ [][NextP]_vars

InitN == PrefixIdle /\ InitName /\ RenderIdle /\ BatchIdle

NextN == ResolveName /\ UNCHANGED <<prefixVars, renderVars, batchVars>>

SpecName == InitN /\ [][NextN]_vars

InitR == PrefixIdle /\ NameIdle /\ InitRender /\ BatchIdle

NextR ==
  \/ \E i \in Ops : Execute(i) /\ UNCHANGED <<prefixVars, nameVars, batchVars>>
  \/ \E i \in Ops : ModalTimer(i) /\ UNCHANGED <<prefixVars, nameVars, batchVars>>
  \/ \E i \in Ops : ModalOther(i) /\ UNCHANGED <<prefixVars, nameVars, batchVars>>
  \/ RenderFrame /\ UNCHANGED <<prefixVars, nameVars, batchVars>>
  \/ RenderComplete /\ UNCHANGED <<prefixVars, nameVars, batchVars>>
  \/ RenderCancel /\ UNCHANGED <<prefixVars, nameVars, batchVars>>

SpecRender == InitR /\ [][NextR]_vars

(***************************************************************************)
(* The claims.                                                             *)
(***************************************************************************)
\* The folders the batch is to convert: below the root, outside any "gifs"
\* folder, holding at least one PNG frame.
Candidates == {d \in dirs : ~UnderGifs(d) /\ BatchPngs(FilesIn(d)) # {}}

Occurrences(q, x) == Cardinality({i \in DOMAIN q : q[i] = x})
Range(q) == {q[i] : i \in DOMAIN q}

\* C1: a batch run never aborts before it has visited every candidate
\* folder: whichever conversions fail (the encoder exits non-zero, the
\* converter returns CANCELLED, the call raises), no folder is handed to the
\* converter twice and none but a candidate is, a run that waits does so for
\* an encoder that is in progress, and at the end of the run every candidate
\* has been handed to the converter exactly once and the run has returned
\* FINISHED.
C1_VisitsAllCandidates ==
  /\ pc # "aborted"
  /\ \A d \in Range(handed) : d \in Candidates /\ Occurrences(handed, d) = 1
  /\ pc = "encoding" => running # {}
  /\ pc = "done" =>
       /\ \A d \in Candidates : Occurrences(handed, d) = 1
       /\ batch_result = "FINISHED"

\* A run over four candidate folders has ended: one conversion succeeded,
\* at least two failed, the last by raising.
C1_Witness ==
  /\ pc = "done"
  /\ Cardinality(Candidates) = 4
  /\ folders_processed >= 1
  /\ failures >= 2
  /\ result = "RAISED"

\* C2: at the end of a run over N > 0 candidate folders of which M failed,
\* the final summary states N - M successes and M failures.
C2_SummaryCounts ==
  (pc = "done" /\ handed # <<>>) =>
    /\ <<"processed", Len(handed) - failures>> \in report.says
    /\ <<"failed", failures>> \in report.says

\* C3: for frames <stem><digits>.png that share the stem, one frame or
\* several, the prefix the batch computes is the stem.
C3_PrefixIsStem == prefix_done => base_prefix = stem

\* C4: with an invalid encoder path the batch aborts before any folder is
\* processed: no encoder is started, no output folder is made, the converter
\* lists no folder, and the walk does not go on through the remaining
\* folders (read at its weakest: at most the first candidate folder reaches
\* the converter).
C4_InvalidPathAborts ==
  (~FfmpegValid /\ pc \in {"walk", "encoding", "done"}) =>
    /\ encoded = <<>>
    /\ made = {}
    /\ conv_listed = {}
    /\ Len(handed) <= 1

\* C5: the walk never descends into a directory named "gifs", at any depth
\* below the root: no such directory and no descendant of one is listed,
\* has its files taken as frames, is handed to the converter or is waiting
\* to be walked.
C5_NeverEntersGifs ==
  \A d \in listed \cup seen_frames \cup Range(handed) \cup Range(stack) \cup pending :
    ~UnderGifs(d)

\* A run has ended that went down to r/a/b, beside which lie "gifs" folders
\* that existed before (r/gifs, r/a/b/gifs, with PNGs) and one the run made
\* (r/a/gifs), and that took the frames of r/Gifs, whose name differs in case.
C5_Witness ==
  /\ pc = "done"
  /\ DirAB \in listed
  /\ DirUpper \in seen_frames
  /\ {DirGifs, DirABGifs} \subseteq dirs
  /\ normpath(GifsDir(DirA)) \in made

\* C6: a second run over the same root visits the candidate folders the
\* first run visited and leaves the directories the first run left; no run
\* lists a folder that a run made, and every folder made is the "gifs"
\* folder of a folder outside any "gifs" folder (none is nested).
C6_RerunIdempotent ==
  /\ prev.some => (last.visited = prev.visited /\ last.dirs = prev.dirs)
  /\ \A d \in made : basename(d) = Gifs /\ ~UnderGifs(dirname(d))
  /\ \A d \in listed : d \notin made /\ ~UnderGifs(d)

\* Two runs have ended, each over at least two candidate folders, and
\* output folders have been made.
C6_Witness ==
  /\ pc = "done"
  /\ prev.some
  /\ Cardinality(last.visited) >= 2
  /\ made # {}
  /\ made \subseteq prev.dirs

\* C8: at most one encoder process is in progress at any time, and one is
\* in progress only while the converter waits for it: whenever the walk is
\* to take its next folder (and make that folder's output directory) or has
\* ended, no encoder is in progress.
C8_OneEncoderAtATime ==
  /\ Cardinality(running) <= 1
  /\ running # {} => pc \in {"encoding", "encoding_single"}
  /\ pc = "encoding" => running = {handed[Len(handed)]}

\* The encoder runs for the third folder of a run, after the encoders of two
\* folders before it have ended.
C8_Witness ==
  /\ pc = "encoding"
  /\ Len(encoded) = 3
  /\ Cardinality(running) = 1

\* C9: when a batch run has returned, scene.render.filepath is what the user
\* had set before the run, whatever folders were processed and however the
\* conversions ended.
C9_FilepathRestored ==
  pc = "done" => (filepath = user_filepath /\ batch_result = "FINISHED")

\* A run has ended in which the render path was overwritten for at least two
\* folders, one conversion succeeded and the last was cancelled.
C9_Witness ==
  /\ pc = "done"
  /\ Len(handed) >= 2
  /\ \A i \in DOMAIN handed : handed[i] # normpath(dirname(user_filepath))
  /\ folders_processed >= 1
  /\ result = "CANCELLED"

\* C7: the output file name is made of the two innermost segments of the
\* normalized source folder path: <parent>_<current>.gif with two segments
\* or more, <current>.gif with one, animation.gif with none; it is never
\* empty and ends in ".gif"; and the output directory is the "gifs"
\* sub-directory of the source folder.
Segments(p) == SelectSeq(split(p), LAMBDA c : c # <<>>)

C7_OutputName ==
  name_done =>
    LET segs == Segments(normpath(render_dir))
        n == Len(segs)
    IN /\ n >= 2 => gif_name = segs[n - 1] \o <<"_">> \o segs[n] \o DotGif
       /\ n = 1 => gif_name = segs[1] \o DotGif
       /\ n = 0 => gif_name = Animation \o DotGif
       /\ gif_name # <<>>
       /\ endswith(gif_name, DotGif)
       /\ basename(gifs_dir) = Gifs
       /\ normpath(dirname(gifs_dir)) = normpath(render_dir)
       /\ render_dir = <<"/", "b", "/", "a">> => gif_name = <<"b", "_", "a">> \o DotGif
       /\ render_dir = <<"/", "a">> => gif_name = <<"a">> \o DotGif
       /\ render_dir = <<"/">> => gif_name = Animation \o DotGif

\* The name of a folder given with a trailing slash, below a parent.
C7_Witness ==
  /\ name_done
  /\ render_dir = <<"/", "b", "/", "a", "/">>
  /\ gif_name = <<"b", "_", "a", ".", "g", "i", "f">>
  /\ gifs_dir = <<"/", "b", "/", "a", "/", "g", "i", "f", "s">>

\* C10: an instance of the render-then-convert operator calls the
\* conversion at most once; the step that calls it is taken with the flag
\* false, by an instance that is modal and whose stop_render_flag has run
\* since its execute, and it removes the timer and both handlers and ends
\* the operator; while the flag is true every event of a modal instance is
\* passed through and the instance stays modal.
C10_State ==
  \A i \in Ops :
    /\ convert_calls[i] <= 1
    /\ convert_calls[i] = 1 =>
         /\ op_state[i] = "finished"
         /\ modal_return[i] = "FINISHED"
         /\ flag_cleared[i]
         /\ ~timer[i]
         /\ i \notin on_complete \cup on_cancel
    /\ op_state[i] = "modal" =>
         /\ convert_calls[i] = 0
         /\ timer[i]
         /\ i \in on_complete \cap on_cancel

C10_Step ==
  \A i \in Ops :
    /\ convert_calls'[i] # convert_calls[i] =>
         /\ ~gif_is_rendering
         /\ flag_cleared[i]
         /\ op_state[i] = "modal"
         /\ convert_calls'[i] = convert_calls[i] + 1
         /\ op_state'[i] = "finished"
         /\ ~timer'[i]
         /\ i \notin on_complete' \cup on_cancel'
    /\ (gif_is_rendering /\ op_state[i] = "modal") =>
         /\ op_state'[i] = "modal"
         /\ modal_return'[i] \in {modal_return[i], "PASS_THROUGH"}

C10_ConvertOnceAfterRender == [](C10_State) /\ [][C10_Step]_vars

\* One instance has converted and ended while another, started later, still
\* waits for its render.
C10_Witness ==
  \E i, j \in Ops :
    /\ convert_calls[i] = 1
    /\ op_state[i] = "finished"
    /\ op_state[j] = "modal"
    /\ modal_return[j] = "PASS_THROUGH"
    /\ gif_is_rendering

====
